---- MODULE Spec2Model ----
(***************************************************************************)
(* A model of the redef analyzer (src/redef.go): one analysis pass over    *)
(* one syntax tree.  A node is identified by its path from the tree root   *)
(* (the sequence of child indices), so the lexicographic order of paths is *)
(* the source order of positions.  The binding tables (types.Info) are     *)
(* computed from the tree by Go's scoping rules.                           *)
(***************************************************************************)
EXTENDS Integers, Sequences, FiniteSets, TLC

\* the nil node and the nil scope
Nil == <<0>>
\* the nil object
NilObj == [name |-> "", kind |-> "nil", pos |-> Nil, parent |-> Nil]

(***************************************************************************)
(* Syntax trees as the parser hands them over (go/ast)                     *)
(***************************************************************************)
Mk(kind, name, tok, kids, roles) ==
    [kind |-> kind, name |-> name, tok |-> tok, kids |-> kids, roles |-> roles]

Rep(n, r) == [i \in 1..n |-> r]

Ident(nm) == Mk("Ident", nm, "", <<>>, <<>>)
Lit == Mk("BasicLit", "", "", <<>>, <<>>)
\* fun(args...)
CallOf(fun, args) == Mk("CallExpr", "", "", <<fun>> \o args,
                        <<"Fun">> \o Rep(Len(args), "Args"))
\* use(args...)
Call(args) == CallOf(Ident("use"), args)
Assign(tok, lhs, rhs) == Mk("AssignStmt", "", tok, lhs \o rhs,
                            Rep(Len(lhs), "Lhs") \o Rep(Len(rhs), "Rhs"))
Block(list) == Mk("BlockStmt", "", "", list, Rep(Len(list), "List"))
\* init and els are sequences of zero or one node
If(init, cond, body, els) == Mk("IfStmt", "", "", init \o <<cond, body>> \o els,
    Rep(Len(init), "Init") \o <<"Cond", "Body">> \o Rep(Len(els), "Else"))
For(init, cond, post, body) == Mk("ForStmt", "", "", init \o cond \o post \o <<body>>,
    Rep(Len(init), "Init") \o Rep(Len(cond), "Cond") \o Rep(Len(post), "Post") \o <<"Body">>)
Range(key, value, x, body) == Mk("RangeStmt", "", ":=", <<key, value, x, body>>,
    <<"Key", "Value", "X", "Body">>)
Return(results) == Mk("ReturnStmt", "", "", results, Rep(Len(results), "Results"))
Branch(tok) == Mk("BranchStmt", "", tok, <<>>, <<>>)
ExprStmt(x) == Mk("ExprStmt", "", "", <<x>>, <<"X">>)
FuncLit(body) == Mk("FuncLit", "", "", <<Mk("FuncType", "", "", <<>>, <<>>), body>>,
                    <<"Type", "Body">>)
\* func f(params...) { body }
FuncDecl(params, body) == Mk("FuncDecl", "", "",
    <<Ident("f"), Mk("FuncType", "", "", params, Rep(Len(params), "Params")), body>>,
    <<"Name", "Type", "Body">>)
\* var names... (package level)
VarDecl(names) == Mk("GenDecl", "", "var", names, Rep(Len(names), "Names"))
File(decls) == Mk("File", "", "", decls, Rep(Len(decls), "Decls"))

StmtKinds == {"AssignStmt", "BlockStmt", "IfStmt", "ForStmt", "RangeStmt",
              "ReturnStmt", "BranchStmt", "ExprStmt"}

RECURSIVE At(_, _)
At(t, p) == IF p = <<>> THEN t ELSE At(t.kids[Head(p)], Tail(p))

\* the depth-first pre-order of the subtree at p (ast.Inspect, inspector events)
RECURSIVE Walk(_, _)
RECURSIVE WalkKids(_, _, _)
WalkKids(t, p, i) ==
    IF i > Len(t.kids) THEN <<>>
    ELSE Walk(t.kids[i], Append(p, i)) \o WalkKids(t, p, i + 1)
Walk(t, p) == <<p>> \o WalkKids(t, p, 1)

Range1(s) == {s[i] : i \in 1..Len(s)}

IsPrefix(a, b) == Len(a) <= Len(b) /\ SubSeq(b, 1, Len(a)) = a

\* source order of positions (token.Pos): a node lies before its children,
\* siblings lie in order
RECURSIVE PosLess(_, _)
PosLess(a, b) ==
    IF a = <<>> THEN b # <<>>
    ELSE IF b = <<>> THEN FALSE
    ELSE IF Head(a) # Head(b) THEN Head(a) < Head(b)
    ELSE PosLess(Tail(a), Tail(b))

Front(p) == SubSeq(p, 1, Len(p) - 1)

(***************************************************************************)
(* The binder (go/types): Defs, Uses and the scope chain of one tree       *)
(***************************************************************************)
Paths(t) == Range1(Walk(t, <<>>))
Kind(t, p) == At(t, p).kind
Role(t, p) == IF p = <<>> THEN "" ELSE At(t, Front(p)).roles[p[Len(p)]]
Idents(t) == {p \in Paths(t) : Kind(t, p) = "Ident"}

\* an identifier in a declaring position
IsDeclPos(t, p) ==
    /\ Kind(t, p) = "Ident"
    /\ p # <<>>
    /\ LET par == At(t, Front(p))
           role == Role(t, p)
       IN \/ par.kind = "AssignStmt" /\ par.tok = ":=" /\ role = "Lhs"
          \/ par.kind = "RangeStmt" /\ par.tok = ":=" /\ role \in {"Key", "Value"}
          \/ par.kind = "FuncType" /\ role = "Params"
          \/ par.kind = "GenDecl" /\ role = "Names"
          \/ par.kind = "FuncDecl" /\ role = "Name"

\* a function body shares the scope of its function; every other block,
\* and every if, for and range statement, opens a scope of its own
IsScope(t, p) ==
    \/ Kind(t, p) \in {"File", "FuncDecl", "FuncLit", "IfStmt", "ForStmt", "RangeStmt"}
    \/ /\ Kind(t, p) = "BlockStmt"
       /\ Kind(t, Front(p)) \notin {"FuncDecl", "FuncLit"}

\* the innermost scope strictly around p
RECURSIVE ScopeAround(_, _)
ScopeAround(t, p) ==
    IF p = <<>> THEN Nil
    ELSE IF IsScope(t, Front(p)) THEN Front(p)
    ELSE ScopeAround(t, Front(p))

DeclScope(t, d) ==
    IF Role(t, d) = "Name" /\ Kind(t, Front(d)) = "FuncDecl"
    THEN ScopeAround(t, Front(d))
    ELSE ScopeAround(t, d)

\* a := declares the names its scope does not hold yet and reuses the rest
IsDef(t, d) ==
    /\ IsDeclPos(t, d)
    /\ \/ At(t, d).name = "_"
       \/ ~ \E e \in Idents(t) :
              /\ IsDeclPos(t, e)
              /\ At(t, e).name = At(t, d).name
              /\ DeclScope(t, e) = DeclScope(t, d)
              /\ PosLess(e, d)

Obj(t, d) ==
    [name |-> At(t, d).name,
     kind |-> IF Kind(t, Front(d)) = "FuncDecl" THEN "Func" ELSE "Var",
     pos |-> d,
     parent |-> IF At(t, d).name = "_" THEN Nil ELSE DeclScope(t, d)]

\* the declaration d is in scope at the position u
Visible(t, d, u) ==
    LET s == DeclScope(t, d) IN
    /\ IsDef(t, d)
    /\ At(t, d).name # "_"
    /\ At(t, d).name = At(t, u).name
    /\ IsPrefix(s, u)
    /\ \/ s = <<>>
       \/ /\ Kind(t, Front(d)) = "AssignStmt"
          /\ PosLess(d, u)
          /\ ~IsPrefix(Front(d), u)
       \/ /\ Kind(t, Front(d)) \in {"RangeStmt", "FuncType"}
          /\ IsPrefix(Append(s, Len(At(t, s).kids)), u)

UseOf(t, u) ==
    LET cands == IF IsDeclPos(t, u)
                 THEN {d \in Idents(t) : /\ IsDef(t, d)
                                         /\ At(t, d).name = At(t, u).name
                                         /\ DeclScope(t, d) = DeclScope(t, u)}
                 ELSE {d \in Idents(t) : Visible(t, d, u)}
    IN IF IsDef(t, u) \/ cands = {} THEN NilObj
       ELSE Obj(t, CHOOSE d \in cands :
                     \A e \in cands : Len(DeclScope(t, e)) <= Len(DeclScope(t, d)))

ScopeTable(t) ==
    [s \in {p \in Paths(t) : IsScope(t, p)} |->
        [parent |-> ScopeAround(t, s),
         elems |-> LET ds == {d \in Idents(t) : /\ IsDef(t, d)
                                                /\ At(t, d).name # "_"
                                                /\ DeclScope(t, d) = s}
                   IN [nm \in {At(t, d).name : d \in ds} |->
                          Obj(t, CHOOSE d \in ds : At(t, d).name = nm)]]]

TypesInfo(t) ==
    [Defs |-> [p \in Idents(t) |-> IF IsDef(t, p) THEN Obj(t, p) ELSE NilObj],
     Uses |-> [p \in Idents(t) |-> UseOf(t, p)],
     Scopes |-> ScopeTable(t)]

\* the line of each position: a statement of a block, and an else branch,
\* start a new line; a tree written on one line has line 1 throughout
LineTable(t, oneLine) ==
    [p \in Paths(t) |->
        IF oneLine THEN 1
        ELSE 1 + Cardinality({q \in Paths(t) :
                                /\ Role(t, q) \in {"List", "Else"}
                                /\ (q = p \/ PosLess(q, p))})]

\* what one pass is handed: the file's tree, its name, its positions, its bindings
Pass(t, oneLine, filename) ==
    [tree |-> t,
     order |-> Walk(t, <<>>),
     Filename |-> filename,
     oneLine |-> oneLine,
     Line |-> LineTable(t, oneLine),
     TypesInfo |-> TypesInfo(t)]

(***************************************************************************)
(* The analyzer (src/redef.go)                                             *)
(***************************************************************************)
VARIABLES
    unit,      \* which compilation unit the pass analyses (an index of Units)
    flags,     \* the flag variables (set before the pass)
    parent,    \* the parent map of run
    pc,        \* where run stands: "start", "preorder", "done"
    todo,      \* the assignment statements Preorder has yet to hand over
    events,    \* every shadow candidate met, with the pipeline's answer
    diags      \* the diagnostics reported, in order

vars == <<unit, flags, parent, pc, todo, events, diags>>

FlagNames == {"ignoreTests", "allowShortIf", "allowSameLine", "allowDeadOuter",
              "allowErrShadow", "allowLoopShadow", "allowTableTests",
              "allowGuardShadow"}

\* file names as token sequences; strings.HasSuffix compares the tail
TestSuffix == <<"_test", ".go">>
HasSuffix(s, suffix) ==
    /\ Len(s) >= Len(suffix)
    /\ SubSeq(s, Len(s) - Len(suffix) + 1, Len(s)) = suffix

\* parent[n] of a Go map: nil for a missing key
Parent(par, n) == IF n \in DOMAIN par THEN par[n] ELSE Nil
\* the dynamic type of a node value (nil has none)
TypeOf(ps, n) == IF n = Nil THEN "nil" ELSE Kind(ps.tree, n)
Name(ps, n) == At(ps.tree, n).name
\* the children of n in field f, in order
Field(ps, n, f) ==
    LET nd == At(ps.tree, n)
        RECURSIVE pick(_)
        pick(i) == IF i > Len(nd.kids) THEN <<>>
                   ELSE (IF nd.roles[i] = f THEN <<Append(n, i)>> ELSE <<>>) \o pick(i + 1)
    IN pick(1)
\* a field holding one node or nil
Field1(ps, n, f) == IF Field(ps, n, f) = <<>> THEN Nil ELSE Field(ps, n, f)[1]
\* ast.Inspect(n, ...): the nodes of the subtree of n in depth-first order
Inspect(ps, n) == Walk(At(ps.tree, n), n)

\* insp.WithStack(nil, f): f(n, push, stack) with the stack from the root to n
RECURSIVE withStack(_, _, _, _)
RECURSIVE withStackKids(_, _, _, _, _)
withStackKids(t, n, stack, i, par) ==
    IF i > Len(At(t, n).kids) THEN par
    ELSE withStackKids(t, n, stack, i + 1, withStack(t, Append(n, i), stack, par))
withStack(t, n, stack0, par) ==
    LET stack == Append(stack0, n)
        par1 == IF Len(stack) > 1
                THEN par \cup {<<n, stack[Len(stack) - 1]>>}
                ELSE par
    IN withStackKids(t, n, stack, 1, par1)

\* mutant: the index into the stack is off by one, so a node below the
\* root's children gets the node two levels up
buildParentMapSkipOne(ps) ==
    LET writes == withStack(ps.tree, <<>>, <<>>, {})
    IN [n \in {w[1] : w \in writes} |->
           IF Len(n) > 1 THEN Front(Front(n)) ELSE Front(n)]

\* the map as a function; its writes are collected as <<key, value>> pairs
buildParentMap(ps) ==
    LET writes == withStack(ps.tree, <<>>, <<>>, {})
    IN [n \in {w[1] : w \in writes} |-> (CHOOSE w \in writes : w[1] = n)[2]]

skipFile(ps, n) ==
    IF ~flags.ignoreTests THEN HasSuffix(ps.Filename, TestSuffix) ELSE FALSE

IsStmt(ps, n) == TypeOf(ps, n) \in StmtKinds

RECURSIVE findFuncBody(_, _, _)
findFuncBody(ps, n, par) ==
    IF n = Nil THEN Nil
    ELSE LET p == Parent(par, n) IN
         IF TypeOf(ps, p) \in {"FuncDecl", "FuncLit"} THEN Field1(ps, p, "Body")
         ELSE findFuncBody(ps, p, par)

RECURSIVE topLevelWalk(_, _, _, _, _)
topLevelWalk(ps, cur, stmt, par, block) ==
    IF cur = Nil THEN stmt
    ELSE IF Parent(par, cur) = block
         THEN (IF IsStmt(ps, cur) THEN cur ELSE stmt)
         ELSE topLevelWalk(ps, Parent(par, cur), stmt, par, block)

findTopLevelStmt(ps, stmt, par, block) ==
    IF block = Nil \/ stmt = Nil THEN stmt
    ELSE topLevelWalk(ps, stmt, stmt, par, block)

RECURSIVE findOwningStmt(_, _, _)
findOwningStmt(ps, n, par) ==
    IF n = Nil THEN Nil
    ELSE IF IsStmt(ps, n) THEN n
    ELSE findOwningStmt(ps, Parent(par, n), par)

RECURSIVE findEnclosingBlock(_, _, _)
findEnclosingBlock(ps, n, par) ==
    IF n = Nil THEN Nil
    ELSE IF TypeOf(ps, n) = "BlockStmt" THEN n
    ELSE findEnclosingBlock(ps, Parent(par, n), par)

\* the iterations of the loop `for cur := n; cur != nil; cur = parent[cur]`
\* in each of the four walks
RECURSIVE findOwningStmtSteps(_, _, _)
findOwningStmtSteps(ps, n, par) ==
    IF n = Nil THEN 0
    ELSE IF IsStmt(ps, n) THEN 1
    ELSE 1 + findOwningStmtSteps(ps, Parent(par, n), par)

RECURSIVE findEnclosingBlockSteps(_, _, _)
findEnclosingBlockSteps(ps, n, par) ==
    IF n = Nil THEN 0
    ELSE IF TypeOf(ps, n) = "BlockStmt" THEN 1
    ELSE 1 + findEnclosingBlockSteps(ps, Parent(par, n), par)

RECURSIVE findFuncBodySteps(_, _, _)
findFuncBodySteps(ps, n, par) ==
    IF n = Nil THEN 0
    ELSE IF TypeOf(ps, Parent(par, n)) \in {"FuncDecl", "FuncLit"} THEN 1
    ELSE 1 + findFuncBodySteps(ps, Parent(par, n), par)

RECURSIVE topLevelSteps(_, _, _)
topLevelSteps(cur, par, block) ==
    IF cur = Nil THEN 0
    ELSE IF Parent(par, cur) = block THEN 1
    ELSE 1 + topLevelSteps(Parent(par, cur), par, block)

findTopLevelStmtSteps(stmt, par, block) ==
    IF block = Nil \/ stmt = Nil THEN 0 ELSE topLevelSteps(stmt, par, block)

\* some identifier under s resolves to outer
stmtUsesOuter(ps, s, outer) ==
    \E id \in Range1(Inspect(ps, s)) :
        TypeOf(ps, id) = "Ident" /\ ps.TypesInfo.Uses[id] = outer

\* the index of stmt in list, -1 when it is not there
IndexOf(list, stmt) ==
    IF \E i \in 1..Len(list) : list[i] = stmt
    THEN CHOOSE i \in 1..Len(list) : list[i] = stmt /\ \A j \in 1..(i - 1) : list[j] # stmt
    ELSE -1

\* mutant: the scan starts at stmt itself (block.List[idx:])
outerUsedLaterFromStmt(ps, outer, stmt, block) ==
    IF block = Nil THEN FALSE
    ELSE LET list == Field(ps, block, "List")
             idx == IndexOf(list, stmt)
         IN IF idx = -1 THEN FALSE
            ELSE \E j \in idx..Len(list) : stmtUsesOuter(ps, list[j], outer)

outerUsedLater(ps, outer, stmt, block) ==
    IF block = Nil THEN FALSE
    ELSE LET list == Field(ps, block, "List")
             idx == IndexOf(list, stmt)
         IN IF idx = -1 THEN FALSE
            ELSE \E j \in (idx + 1)..Len(list) : stmtUsesOuter(ps, list[j], outer)

isTableTestPattern(ps, as, par) ==
    LET Lhs == Field(ps, as, "Lhs")
        Rhs == Field(ps, as, "Rhs")
        rng == Parent(par, as)
        rangeIdent == Field1(ps, rng, "Value")
        info == ps.TypesInfo
    IN IF Len(Lhs) # 1 \/ Len(Rhs) # 1 THEN FALSE
       ELSE IF TypeOf(ps, Lhs[1]) # "Ident" THEN FALSE
       ELSE IF TypeOf(ps, Rhs[1]) # "Ident" THEN FALSE
       ELSE IF TypeOf(ps, rng) # "RangeStmt" THEN FALSE
       ELSE IF TypeOf(ps, rangeIdent) # "Ident" THEN FALSE
       ELSE IF Name(ps, Lhs[1]) # Name(ps, rangeIdent) THEN FALSE
       ELSE IF Name(ps, Rhs[1]) # Name(ps, rangeIdent) THEN FALSE
       ELSE IF \/ info.Defs[rangeIdent] = NilObj
               \/ info.Defs[Lhs[1]] = NilObj
               \/ info.Uses[Rhs[1]] = NilObj THEN FALSE
       ELSE info.Defs[rangeIdent] = info.Uses[Rhs[1]]

condUsesOuterOnly(ps, cond, outer) ==
    \E id \in Range1(Inspect(ps, cond)) :
        TypeOf(ps, id) = "Ident" /\ ps.TypesInfo.Uses[id] = outer

\* mutant: only the first statement of the body is looked at, and not for
\* uses of outer
hasValidGuardBodyFirst(ps, body, outer) ==
    LET list == Field(ps, body, "List") IN
    IF Len(list) = 0 THEN FALSE
    ELSE TypeOf(ps, list[1]) \in {"ReturnStmt", "BranchStmt"}

hasValidGuardBody(ps, body, outer) ==
    LET list == Field(ps, body, "List") IN
    IF Len(list) # 1 THEN FALSE
    ELSE IF TypeOf(ps, list[1]) \in {"ReturnStmt", "BranchStmt"}
         THEN ~stmtUsesOuter(ps, list[1], outer)
         ELSE FALSE

isValidGuardIf(ps, s, outer) ==
    IF TypeOf(ps, s) # "IfStmt" THEN FALSE
    ELSE IF Field1(ps, s, "Else") # Nil THEN FALSE
    ELSE IF ~condUsesOuterOnly(ps, Field1(ps, s, "Cond"), outer) THEN FALSE
    ELSE hasValidGuardBody(ps, Field1(ps, s, "Body"), outer)

RECURSIVE guardScan(_, _, _, _, _)
guardScan(ps, list, i, stmt, outer) ==
    IF i > Len(list) THEN TRUE
    ELSE IF list[i] = stmt THEN TRUE
    ELSE IF ~stmtUsesOuter(ps, list[i], outer) THEN guardScan(ps, list, i + 1, stmt, outer)
    ELSE IF ~isValidGuardIf(ps, list[i], outer) THEN FALSE
    ELSE guardScan(ps, list, i + 1, stmt, outer)

isGuardClauseOnly(ps, outer, stmt, block) ==
    IF block = Nil \/ stmt = Nil THEN FALSE
    ELSE guardScan(ps, Field(ps, block, "List"), 1, stmt, outer)

skipForShortIf(ps, par, as) ==
    TypeOf(ps, Parent(par, as)) = "IfStmt" /\ flags.allowShortIf

skipForSameLine(ps, ident, outer) ==
    ps.Line[ident] = ps.Line[outer.pos] /\ flags.allowSameLine

skipForLoopShadow(ps, par, stmt) ==
    IF flags.allowLoopShadow
    THEN IF TypeOf(ps, Parent(par, stmt)) = "ForStmt" THEN TRUE
         ELSE TypeOf(ps, Parent(par, stmt)) = "RangeStmt"
    ELSE FALSE

skipForDeadOuter(ps, outer, stmt, block) ==
    IF flags.allowDeadOuter
    THEN ~outerUsedLater(ps, outer, stmt, block) /\ flags.allowDeadOuter
    ELSE FALSE

\* mutant: the name is not compared
skipForErrShadowAnyName(ps, ident, outer) ==
    IF flags.allowErrShadow THEN TRUE ELSE FALSE

skipForErrShadow(ps, ident, outer) ==
    IF flags.allowErrShadow
    THEN Name(ps, ident) = "err" /\ outer.name = "err"
    ELSE FALSE

skipForGuardShadow(ps, outer, stmt, block) ==
    isGuardClauseOnly(ps, outer, stmt, block) /\ flags.allowGuardShadow

skipForTableTests(ps, as, par) ==
    isTableTestPattern(ps, as, par) /\ flags.allowTableTests

\* s.Lookup(name)
Lookup(info, s, name) ==
    IF name \in DOMAIN info.Scopes[s].elems THEN info.Scopes[s].elems[name] ELSE NilObj

\* mutant: the first scope holding the name decides
outerWalkFirstMatch(info, name, pos, s) ==
    LET holding == {q \in DOMAIN info.Scopes :
                       IsPrefix(q, s) /\ name \in DOMAIN info.Scopes[q].elems}
        first == CHOOSE q \in holding : \A r \in holding : Len(r) <= Len(q)
        obj == Lookup(info, first, name)
    IN IF s = Nil \/ holding = {} THEN NilObj
       ELSE IF obj.kind = "Var" /\ PosLess(obj.pos, pos) THEN obj
       ELSE NilObj

RECURSIVE outerWalk(_, _, _, _)
outerWalk(info, name, pos, s) ==
    IF s = Nil THEN NilObj
    ELSE LET obj == Lookup(info, s, name) IN
         IF obj # NilObj /\ obj.kind = "Var" /\ PosLess(obj.pos, pos) THEN obj
         ELSE outerWalk(info, name, pos, info.Scopes[s].parent)

findOuter(ps, ident, inner) ==
    LET scope == inner.parent IN
    IF scope = Nil THEN NilObj
    ELSE outerWalk(ps.TypesInfo, Name(ps, ident), ident, ps.TypesInfo.Scopes[scope].parent)

\* mutant: the loop has no break, so the last element decides
RECURSIVE rangeNoBreak(_, _, _)
rangeNoBreak(list, i, should) ==
    IF i > Len(list) THEN should
    ELSE rangeNoBreak(list, i + 1, list[i])

\* for _, should = range list { if should { break } }
RECURSIVE rangeUntilTrue(_, _, _)
rangeUntilTrue(list, i, should) ==
    IF i > Len(list) THEN should
    ELSE IF list[i] THEN TRUE
    ELSE rangeUntilTrue(list, i + 1, list[i])

\* mutant: a candidate without an enclosing block or statement is skipped
shouldSkipShadowSilent(ps, ident, outer, as, par) ==
    LET block == findEnclosingBlock(ps, as, par)
        stmt == findOwningStmt(ps, as, par)
        funcBody == findFuncBody(ps, as, par)
        topStmt == IF funcBody # Nil THEN findTopLevelStmt(ps, stmt, par, funcBody) ELSE stmt
    IN IF block = Nil THEN TRUE
       ELSE IF stmt = Nil THEN TRUE
       ELSE rangeUntilTrue(<<skipForShortIf(ps, par, as),
                             skipForSameLine(ps, ident, outer),
                             skipForLoopShadow(ps, par, stmt),
                             skipForDeadOuter(ps, outer, topStmt, funcBody),
                             skipForErrShadow(ps, ident, outer),
                             skipForGuardShadow(ps, outer, topStmt, funcBody),
                             skipForTableTests(ps, as, par)>>, 1, FALSE)

shouldSkipShadow(ps, ident, outer, as, par) ==
    LET block == findEnclosingBlock(ps, as, par)
        stmt == findOwningStmt(ps, as, par)
        funcBody == findFuncBody(ps, as, par)
        topStmt == IF funcBody # Nil THEN findTopLevelStmt(ps, stmt, par, funcBody) ELSE stmt
    IN IF block = Nil THEN FALSE
       ELSE IF stmt = Nil THEN FALSE
       ELSE rangeUntilTrue(<<skipForShortIf(ps, par, as),
                             skipForSameLine(ps, ident, outer),
                             skipForLoopShadow(ps, par, stmt),
                             skipForDeadOuter(ps, outer, topStmt, funcBody),
                             skipForErrShadow(ps, ident, outer),
                             skipForGuardShadow(ps, outer, topStmt, funcBody),
                             skipForTableTests(ps, as, par)>>, 1, FALSE)

\* fmt's %q
Quote(str) == <<"\"", str, "\"">>
\* pass.Reportf(pos, "variable %q is redefined and shadows an outer %q", a, b)
Reportf(pos, a, b) ==
    [Pos |-> pos,
     Message |-> <<"variable ">> \o Quote(a) \o
                 <<" is redefined and shadows an outer ">> \o Quote(b)]

\* mutant: the loop over the left-hand side breaks at a blank identifier
RECURSIVE lhsLoopBreak(_, _, _, _)
lhsLoopBreak(ps, as, par, i) ==
    LET Lhs == Field(ps, as, "Lhs") IN
    IF i > Len(Lhs) THEN <<>>
    ELSE LET ident == Lhs[i]
             obj == ps.TypesInfo.Defs[ident]
             outer == findOuter(ps, ident, obj)
         IN IF TypeOf(ps, ident) # "Ident" \/ Name(ps, ident) = "_" THEN <<>>
            ELSE IF obj = NilObj THEN lhsLoopBreak(ps, as, par, i + 1)
            ELSE IF outer = NilObj THEN lhsLoopBreak(ps, as, par, i + 1)
            ELSE <<[ident |-> ident, outer |-> outer, as |-> as,
                    skip |-> shouldSkipShadow(ps, ident, outer, as, par)]>>
                 \o lhsLoopBreak(ps, as, par, i + 1)

\* the shadow candidates of one assignment, left to right, each with the
\* answer of shouldSkipShadow
RECURSIVE lhsLoop(_, _, _, _)
lhsLoop(ps, as, par, i) ==
    LET Lhs == Field(ps, as, "Lhs") IN
    IF i > Len(Lhs) THEN <<>>
    ELSE LET ident == Lhs[i]
             obj == ps.TypesInfo.Defs[ident]
             outer == findOuter(ps, ident, obj)
         IN IF TypeOf(ps, ident) # "Ident" \/ Name(ps, ident) = "_"
            THEN lhsLoop(ps, as, par, i + 1)
            ELSE IF obj = NilObj THEN lhsLoop(ps, as, par, i + 1)
            ELSE IF outer = NilObj THEN lhsLoop(ps, as, par, i + 1)
            ELSE <<[ident |-> ident, outer |-> outer, as |-> as,
                    skip |-> shouldSkipShadow(ps, ident, outer, as, par)]>>
                 \o lhsLoop(ps, as, par, i + 1)

\* mutant: only the first left-hand identifier is looked at
processAssignFirstLhs(ps, as, par) ==
    SelectSeq(lhsLoop(ps, as, par, 1), LAMBDA e : e.ident = Field(ps, as, "Lhs")[1])

processAssign(ps, as, par) == lhsLoop(ps, as, par, 1)

\* mutant: the callback handles each assignment twice
visitTwice(ps, n, par) ==
    IF skipFile(ps, n) THEN <<>>
    ELSE IF At(ps.tree, n).tok # ":=" THEN <<>>
    ELSE processAssign(ps, n, par) \o processAssign(ps, n, par)

\* the callback of insp.Preorder in run, for one assignment statement
visit(ps, n, par) ==
    IF skipFile(ps, n) THEN <<>>
    ELSE IF At(ps.tree, n).tok # ":=" THEN <<>>
    ELSE processAssign(ps, n, par)

RECURSIVE reports(_, _)
reports(ps, evs) ==
    IF evs = <<>> THEN <<>>
    ELSE (IF Head(evs).skip THEN <<>>
          ELSE <<Reportf(Head(evs).ident, Name(ps, Head(evs).ident),
                         Name(ps, Head(evs).ident))>>)
         \o reports(ps, Tail(evs))

IsAssign(ps, n) == TypeOf(ps, n) = "AssignStmt"

\* insp.Preorder over the assignment statements: every callback in turn
RECURSIVE preorderLoop(_, _, _)
preorderLoop(ps, list, par) ==
    IF list = <<>> THEN <<>>
    ELSE visit(ps, Head(list), par) \o preorderLoop(ps, Tail(list), par)

\* the diagnostics of a whole pass over ps
run(ps) ==
    reports(ps, preorderLoop(ps, SelectSeq(ps.order, LAMBDA n : IsAssign(ps, n)),
                             buildParentMap(ps)))

(***************************************************************************)
(* The trees analysed: one function whose body declares x and err, then    *)
(* shadows one of them in some context, with statements before and after   *)
(***************************************************************************)
MaxPre == 2     \* statements between the outer declaration and the shadow
MaxPost == 1    \* statements after the shadowing statement

RECURSIVE SeqsUpTo(_, _)
SeqsUpTo(S, n) ==
    IF n = 0 THEN {<<>>}
    ELSE SeqsUpTo(S, n - 1) \cup
         {Append(q, e) : q \in {r \in SeqsUpTo(S, n - 1) : Len(r) = n - 1}, e \in S}

Names == {"err", "x"}
Use(v) == ExprStmt(Call(<<Ident(v)>>))
NoUse == ExprStmt(Call(<<>>))
Define1(v) == Assign(":=", <<Ident(v)>>, <<Lit>>)
\* x, err := g()
Outer == Assign(":=", <<Ident("x"), Ident("err")>>, <<Lit>>)

\* if v := h(); v { use(v) }
CtxShortIf(v) == If(<<Define1(v)>>, Ident(v), Block(<<Use(v)>>), <<>>)
\* if v { v := h(); use(v) }
CtxIfBody(v) == If(<<>>, Ident(v), Block(<<Define1(v), Use(v)>>), <<>>)
\* if c { } else if v := h(); v { }
CtxElseIf(v) == If(<<>>, Lit, Block(<<>>),
                   <<If(<<Define1(v)>>, Ident(v), Block(<<>>), <<>>)>>)
\* for v := h(); v; { use(v) }
CtxForInit(v) == For(<<Define1(v)>>, <<Ident(v)>>, <<>>, Block(<<Use(v)>>))
\* for { v := h(); use(v) }
CtxForBody(v) == For(<<>>, <<>>, <<>>, Block(<<Define1(v), Use(v)>>))
\* for _, t := range xs { v := h() }
CtxRangeBody(v) == Range(Ident("_"), Ident("t"), Ident("xs"), Block(<<Define1(v)>>))
\* for _, v := range xs { v := v; use(v) }
CtxTable(v) == Range(Ident("_"), Ident(v), Ident("xs"),
                     Block(<<Assign(":=", <<Ident(v)>>, <<Ident(v)>>), Use(v)>>))
\* func() { v := h(); use(v) }()
CtxClosure(v) == ExprStmt(CallOf(FuncLit(Block(<<Define1(v), Use(v)>>)), <<>>))
\* { _, v := g() }
CtxBlank(v) == Block(<<Assign(":=", <<Ident("_"), Ident(v)>>, <<Lit>>)>>)
\* { v, _, w := g() } with w the other name
CtxBoth(v) == Block(<<Assign(":=",
    <<Ident(v), Ident("_"), Ident(CHOOSE w \in Names : w # v)>>, <<Lit>>)>>)
\* { if v := h(); v { use(v) }; use(v) }
CtxNestedIf(v) == Block(<<CtxShortIf(v), Use(v)>>)
\* { w, v := g(); z, v := g(); v = h() }
CtxReuse(v) == Block(<<Assign(":=", <<Ident("w"), Ident(v)>>, <<Lit>>),
                       Assign(":=", <<Ident("z"), Ident(v)>>, <<Lit>>),
                       Assign("=", <<Ident(v)>>, <<Lit>>)>>)

Contexts(v) == {CtxShortIf(v), CtxIfBody(v), CtxElseIf(v), CtxForInit(v),
                CtxForBody(v), CtxRangeBody(v), CtxTable(v), CtxClosure(v),
                CtxBlank(v), CtxBoth(v), CtxNestedIf(v), CtxReuse(v)}

\* if v { return }
GuardOK(v) == If(<<>>, Ident(v), Block(<<Return(<<>>)>>), <<>>)
PreKinds(v) == {GuardOK(v), Use(v)}

\* the shapes a conditional before the shadow can have
GuardShapes(v) ==
    {If(<<>>, Ident(v), Block(<<Return(<<>>)>>), <<Block(<<>>)>>),
     If(<<>>, Ident(v), Block(<<Return(<<Ident(v)>>)>>), <<>>),
     If(<<>>, Ident(v), Block(<<NoUse, Return(<<>>)>>), <<>>),
     If(<<>>, Ident(v), Block(<<Return(<<>>), NoUse>>), <<>>),
     If(<<>>, Ident(v), Block(<<>>), <<>>),
     If(<<>>, Ident(v), Block(<<NoUse>>), <<>>),
     If(<<>>, Ident(v), Block(<<Branch("break")>>), <<>>),
     If(<<>>, Lit, Block(<<Return(<<Ident(v)>>)>>), <<>>),
     If(<<>>, Lit, Block(<<Return(<<>>)>>), <<>>),
     If(<<Assign(":=", <<Ident("w")>>, <<Ident(v)>>)>>, Ident("w"),
        Block(<<Return(<<>>)>>), <<>>),
     If(<<Assign(":=", <<Ident("w")>>, <<Lit>>)>>, Ident(v),
        Block(<<Return(<<>>)>>), <<>>)}

\* func f() { x, err := g(); pre...; ctx; post... }
Func(pre, ctx, post) ==
    File(<<FuncDecl(<<>>, Block(<<Outer>> \o pre \o <<ctx>> \o post))>>)

\* the contexts followed by every sequence of later statements
PostContexts(v) == {CtxShortIf(v), CtxIfBody(v), CtxForBody(v), CtxClosure(v),
                    CtxNestedIf(v)}
TreesContexts ==
    {Func(<<>>, c, post) : c \in PostContexts("err"),
                           post \in SeqsUpTo({Use("err"), NoUse}, MaxPost)}
    \cup {Func(<<>>, c, <<>>) : c \in Contexts("err")}
    \cup {Func(<<>>, c, post) : c \in {CtxShortIf("x"), CtxBoth("x")},
                                post \in {<<>>, <<Use("x")>>}}
TreesBefore ==
    {Func(pre, CtxShortIf("err"), <<>>) : pre \in SeqsUpTo(PreKinds("err"), MaxPre)}
    \cup {Func(pre, CtxShortIf("err"), <<>>) :
            pre \in {<<NoUse>>, <<NoUse, GuardOK("err")>>, <<GuardOK("err"), NoUse>>}}
TreesGuards ==
    {Func(<<g>>, CtxShortIf("err"), <<>>) : g \in GuardShapes("err")} \cup
    {Func(<<>>, ExprStmt(CallOf(FuncLit(Block(<<g, Define1("err")>>)), <<>>)), <<>>) :
        g \in GuardShapes("err")}
\* outer bindings that are not locals of the function body, or come too late
TreesOuter ==
    {File(<<VarDecl(<<Ident("err")>>), FuncDecl(<<>>, Block(<<Define1("err"), Use("err")>>))>>),
     File(<<FuncDecl(<<Ident("err")>>, Block(<<CtxShortIf("err")>>))>>),
     File(<<FuncDecl(<<>>, Block(<<CtxShortIf("err"), Define1("err")>>))>>),
     File(<<FuncDecl(<<>>, Block(<<Block(<<Define1("f")>>)>>))>>),
     Func(<<>>, Block(<<CtxShortIf("err"), Define1("err")>>), <<>>)}
\* trees written on one line
TreesOneLine == {Func(<<>>, CtxShortIf("err"), <<>>), Func(<<>>, CtxClosure("x"), <<Use("x")>>)}

AllTrees == TreesContexts \cup TreesBefore \cup TreesGuards \cup TreesOuter
\* the trees also analysed as a test file
TreesTestFile == TreesOuter \cup {Func(<<>>, CtxShortIf("err"), <<>>),
                                 Func(<<>>, CtxBoth("x"), <<>>)}

Passes ==
    {Pass(t, FALSE, <<"code", ".go">>) : t \in AllTrees}
    \cup {Pass(t, FALSE, <<"code", "_test", ".go">>) : t \in TreesTestFile}
    \cup {Pass(t, TRUE, <<"code", ".go">>) : t \in TreesOneLine}

RECURSIVE SetToSeq(_)
SetToSeq(S) ==
    IF S = {} THEN <<>>
    ELSE LET e == CHOOSE e \in S : TRUE IN <<e>> \o SetToSeq(S \ {e})

\* the compilation units, each analysed by a pass of its own
Units == SetToSeq(Passes)

\* the pass under analysis (read-only)
pass == Units[unit]

Init ==
    /\ unit \in 1..Len(Units)
    /\ flags \in [FlagNames -> BOOLEAN]
    /\ parent = [m \in {} |-> Nil]
    /\ pc = "start"
    /\ todo = <<>>
    /\ events = <<>>
    /\ diags = <<>>

\* run, up to the call of insp.Preorder
BuildParentMap ==
    /\ pc = "start"
    /\ parent' = buildParentMap(pass)
    /\ todo' = SelectSeq(pass.order, LAMBDA n : IsAssign(pass, n))
    /\ pc' = "preorder"
    /\ UNCHANGED <<unit, flags, events, diags>>

\* one call of the Preorder callback
VisitAssign ==
    /\ pc = "preorder"
    /\ todo # <<>>
    /\ LET evs == visit(pass, Head(todo), parent) IN
        /\ events' = events \o evs
        /\ diags' = diags \o reports(pass, evs)
    /\ todo' = Tail(todo)
    /\ UNCHANGED <<unit, flags, parent, pc>>

\* run returns
Return0 ==
    /\ pc = "preorder"
    /\ todo = <<>>
    /\ pc' = "done"
    /\ UNCHANGED <<unit, flags, parent, todo, events, diags>>

Next == BuildParentMap \/ VisitAssign \/ Return0

Spec == Init /\ [][Next]_vars

\* run is not left unfinished: the parent map gets built, the callback is
\* called while an assignment is left, and run returns after the last one
Started == pc = "start" /\ pc' = "preorder"
Visited == pc = "preorder" /\ todo # <<>> /\ todo' = Tail(todo)
Returned == pc = "preorder" /\ todo = <<>> /\ pc' = "done"
SpecLive == Spec /\ WF_pc(Started) /\ WF_todo(Visited) /\ WF_pc(Returned)

(***************************************************************************)
(* processAssign as a function of its arguments: the parent map handed in  *)
(* may lack entries                                                        *)
(***************************************************************************)
TreesArgs == {Func(<<>>, c, <<>>) : c \in Contexts("err")}

\* the parent map of ps, and the same map with the entry of one node missing
ParentMaps(ps) ==
    LET full == buildParentMap(ps) IN
    {full} \cup {[n \in DOMAIN full \ {c} |-> full[n]] :
                   c \in {c \in DOMAIN full : \E a \in Range1(ps.order) :
                                                  IsAssign(ps, a) /\ IsPrefix(c, a)}}

InitArgs ==
    /\ unit \in {i \in 1..Len(Units) : /\ Units[i].tree \in TreesArgs
                                       /\ Units[i].Filename = <<"code", ".go">>
                                       /\ ~Units[i].oneLine}
    /\ flags \in [FlagNames -> BOOLEAN]
    /\ parent \in ParentMaps(pass)
    /\ pc = "preorder"
    /\ todo = SelectSeq(pass.order, LAMBDA n : IsAssign(pass, n))
    /\ events = <<>>
    /\ diags = <<>>

NextArgs == VisitAssign \/ Return0

SpecArgs == InitArgs /\ [][NextArgs]_vars

\* a tree without the blank identifiers on the left of its assignments
RECURSIVE StripBlanks(_)
RECURSIVE StripKids(_, _)
StripKids(t, i) ==
    IF i > Len(t.kids) THEN [kids |-> <<>>, roles |-> <<>>]
    ELSE LET rest == StripKids(t, i + 1) IN
         IF t.kind = "AssignStmt" /\ t.roles[i] = "Lhs" /\ t.kids[i].name = "_"
         THEN rest
         ELSE [kids |-> <<StripBlanks(t.kids[i])>> \o rest.kids,
               roles |-> <<t.roles[i]>> \o rest.roles]
StripBlanks(t) ==
    Mk(t.kind, t.name, t.tok, StripKids(t, 1).kids, StripKids(t, 1).roles)

\* each unit with the blank identifiers taken out
TwinUnits ==
    [i \in 1..Len(Units) |->
        IF StripBlanks(Units[i].tree) = Units[i].tree THEN Units[i]
        ELSE Pass(StripBlanks(Units[i].tree), Units[i].oneLine, Units[i].Filename)]

(***************************************************************************)
(* Vocabulary of the properties.  The structure of the tree is read off    *)
(* the paths, not off the parent map the pass builds.                      *)
(***************************************************************************)
Default == [f \in FlagNames |-> FALSE]
Only(f) == [g \in FlagNames |-> g = f]
IsTestFile == HasSuffix(pass.Filename, TestSuffix)

DiagCount(p) == Cardinality({i \in 1..Len(diags) : diags[i].Pos = p})
DiagName(d) == d.Message[3]
Events == Range1(events)
\* every candidate is reported once unless the pipeline suppressed it
Reported(e) == DiagCount(e.ident) = (IF e.skip THEN 0 ELSE 1)

SyntacticParent(n) == IF n = <<>> THEN Nil ELSE Front(n)
RECURSIVE NearestBlock(_)
NearestBlock(n) ==
    IF n = <<>> THEN Nil
    ELSE IF Kind(pass.tree, Front(n)) = "BlockStmt" THEN Front(n)
    ELSE NearestBlock(Front(n))
IsFuncBody(b) == b # Nil /\ b # <<>> /\ Kind(pass.tree, Front(b)) \in {"FuncDecl", "FuncLit"}
RECURSIVE FuncBodyAround(_)
FuncBodyAround(n) ==
    IF NearestBlock(n) = Nil THEN Nil
    ELSE IF IsFuncBody(NearestBlock(n)) THEN NearestBlock(n)
    ELSE FuncBodyAround(NearestBlock(n))
\* the statement of block b that holds n
StmtIn(b, n) == SubSeq(n, 1, Len(b) + 1)
\* some identifier at or below s resolves to the binding o
Refs(s, o) ==
    \E q \in Idents(pass.tree) : IsPrefix(s, q) /\ pass.TypesInfo.Uses[q] = o
\* a statement of b after the one holding n refers to o
UsedAfter(b, n, o) ==
    \E k \in (n[Len(b) + 1] + 1)..Len(At(pass.tree, b).kids) : Refs(Append(b, k), o)
\* the shape of a guard clause on o
GuardShape(s, o) ==
    /\ Kind(pass.tree, s) = "IfStmt"
    /\ Field1(pass, s, "Else") = Nil
    /\ Refs(Field1(pass, s, "Cond"), o)
    /\ LET body == Field(pass, Field1(pass, s, "Body"), "List") IN
        /\ Len(body) = 1
        /\ Kind(pass.tree, body[1]) \in {"ReturnStmt", "BranchStmt"}
        /\ ~Refs(body[1], o)
\* every statement of b before the one holding n that refers to o is a guard
GuardsOnlyBefore(b, n, o) ==
    \A k \in 1..(n[Len(b) + 1] - 1) :
        Refs(Append(b, k), o) => GuardShape(Append(b, k), o)

\* the identifiers a := newly declares over an earlier variable of an
\* enclosing scope
ShadowIdents ==
    {d \in Idents(pass.tree) :
        /\ Role(pass.tree, d) = "Lhs"
        /\ At(pass.tree, Front(d)).tok = ":="
        /\ Name(pass, d) # "_"
        /\ pass.TypesInfo.Defs[d] # NilObj
        /\ \E s \in DOMAIN pass.TypesInfo.Scopes :
              /\ s # pass.TypesInfo.Defs[d].parent
              /\ IsPrefix(s, pass.TypesInfo.Defs[d].parent)
              /\ Name(pass, d) \in DOMAIN pass.TypesInfo.Scopes[s].elems
              /\ pass.TypesInfo.Scopes[s].elems[Name(pass, d)].kind = "Var"
              /\ PosLess(pass.TypesInfo.Scopes[s].elems[Name(pass, d)].pos, d)}

\* a set of positions in source order
RECURSIVE InOrder(_)
InOrder(S) ==
    IF S = {} THEN <<>>
    ELSE LET m == CHOOSE m \in S : \A q \in S : q = m \/ PosLess(m, q)
         IN <<m>> \o InOrder(S \ {m})

RECURSIVE Messages(_)
Messages(ps) ==
    IF ps = <<>> THEN <<>>
    ELSE <<[Pos |-> Head(ps),
            Message |-> <<"variable ", "\"", Name(pass, Head(ps)), "\"",
                          " is redefined and shadows an outer ",
                          "\"", Name(pass, Head(ps)), "\"">>]>>
         \o Messages(Tail(ps))

\* one diagnostic for each shadowing identifier, in source order
ShadowDiags == Messages(InOrder(ShadowIdents))
\* what the default configuration reports
DefaultDiags == IF IsTestFile THEN <<>> ELSE ShadowDiags

(***************************************************************************)
(* Properties                                                              *)
(***************************************************************************)

\* C1: with ignore-tests enabled nothing is reported in a file named
\* ..._test.go; with ignore-tests disabled such a file is analysed exactly
\* like the same file under another name.
C1_IgnoreTests ==
    IsTestFile =>
        /\ flags.ignoreTests => diags = <<>>
        /\ (~flags.ignoreTests /\ pc = "done") =>
              diags = run([pass EXCEPT !.Filename = <<"code", ".go">>])

\* v := v written directly in the body of a range loop whose value variable
\* is v, the right-hand v being that variable
IsTableIdiom(as) ==
    LET Lhs == Field(pass, as, "Lhs")
        Rhs == Field(pass, as, "Rhs")
        body == SyntacticParent(as)
        rng == SyntacticParent(body)
    IN /\ Len(Lhs) = 1 /\ Len(Rhs) = 1
       /\ Kind(pass.tree, Rhs[1]) = "Ident"
       /\ Kind(pass.tree, body) = "BlockStmt"
       /\ Kind(pass.tree, rng) = "RangeStmt"
       /\ Name(pass, Field1(pass, rng, "Value")) = Name(pass, Lhs[1])
       /\ pass.TypesInfo.Uses[Rhs[1]] = pass.TypesInfo.Defs[Field1(pass, rng, "Value")]

Defines == {n \in Range1(pass.order) : IsAssign(pass, n) /\ At(pass.tree, n).tok = ":="}

\* C2: the assignment v := v in the body of a range loop over v gets no
\* diagnostic with only allow-table-tests enabled, and exactly one with
\* every toggle disabled (stated for a file that is analysed).
C2_TableTests ==
    (pc = "done" /\ ~IsTestFile) =>
        \A as \in Defines :
            IsTableIdiom(as) =>
                /\ flags = Only("allowTableTests") => DiagCount(Field(pass, as, "Lhs")[1]) = 0
                /\ flags = Default => DiagCount(Field(pass, as, "Lhs")[1]) = 1

\* the assignment is a statement of the body block of a for or range loop
InLoopBody(as) ==
    /\ Kind(pass.tree, SyntacticParent(as)) = "BlockStmt"
    /\ Kind(pass.tree, SyntacticParent(SyntacticParent(as))) \in {"ForStmt", "RangeStmt"}

\* C3: with only allow-loop-shadow enabled, no left-hand identifier of a
\* shadowing assignment written directly in a loop body is reported.
C3_LoopShadow ==
    (pc = "done" /\ flags = Only("allowLoopShadow")) =>
        \A e \in Events : InLoopBody(e.as) => DiagCount(e.ident) = 0

\* C4 as claimed: with only allow-dead-outer enabled a shadow is suppressed
\* exactly when no later statement of the assignment's nearest enclosing
\* block refers to the outer binding; with every toggle disabled it is
\* reported once.
C4_DeadOuterNearestBlock ==
    \A e \in Events :
        /\ Reported(e)
        /\ flags = Only("allowDeadOuter") =>
              (e.skip <=> ~UsedAfter(NearestBlock(e.as), e.as, e.outer))
        /\ flags = Default => ~e.skip

\* C4 amended: with only allow-dead-outer enabled a shadow is suppressed
\* exactly when no statement of the enclosing function body after the
\* top-level statement that holds the assignment refers to the outer
\* binding; with every toggle disabled it is reported once.
C4_DeadOuterFuncBody ==
    \A e \in Events :
        /\ Reported(e)
        /\ flags = Only("allowDeadOuter") =>
              (e.skip <=> ~UsedAfter(FuncBodyAround(e.as), e.as, e.outer))
        /\ flags = Default => ~e.skip

\* a shadow in a nested block is suppressed as dead although nothing is
\* written after it in that block either way
C4_Witness ==
    /\ flags = Only("allowDeadOuter")
    /\ \E e \in Events : e.skip /\ NearestBlock(e.as) # FuncBodyAround(e.as)
    /\ \E e \in Events : ~e.skip

\* C5: for a shadow whose nearest enclosing block is the function body, with
\* only allow-guard-shadow enabled the shadow is suppressed exactly when
\* every earlier statement of that block that refers to the outer binding is
\* a guard clause on it; with every toggle disabled it is reported once.
C5_GuardShadow ==
    \A e \in Events :
        IsFuncBody(NearestBlock(e.as)) =>
            /\ Reported(e)
            /\ flags = Only("allowGuardShadow") =>
                  (e.skip <=> GuardsOnlyBefore(NearestBlock(e.as), e.as, e.outer))
            /\ flags = Default => ~e.skip

C5_Witness ==
    /\ flags = Only("allowGuardShadow")
    /\ \E e \in Events :
          /\ IsFuncBody(NearestBlock(e.as))
          /\ e.skip
          /\ DiagCount(e.ident) = 0
          /\ \E k \in 1..(e.as[Len(NearestBlock(e.as)) + 1] - 1) :
                Refs(Append(NearestBlock(e.as), k), e.outer)

NotErr(seq) == SelectSeq(seq, LAMBDA d : DiagName(d) # "err")

\* C6: with allow-err-shadow enabled no diagnostic names err, whatever the
\* other toggles; and with only allow-err-shadow enabled the diagnostics of
\* every other name are those of the default configuration.
C6_ErrShadow ==
    /\ flags.allowErrShadow => \A i \in 1..Len(diags) : DiagName(diags[i]) # "err"
    /\ (pc = "done" /\ flags = Default) => diags = DefaultDiags
    /\ (pc = "done" /\ flags = Only("allowErrShadow")) => diags = NotErr(DefaultDiags)

\* err is suppressed while the x of the same assignment is reported
C6_Witness ==
    /\ pc = "done"
    /\ flags = Only("allowErrShadow")
    /\ \E e \in Events : Name(pass, e.ident) = "err" /\ e.skip /\ DiagCount(e.ident) = 0
    /\ \E e \in Events : Name(pass, e.ident) = "x" /\ DiagCount(e.ident) = 1

\* C7: with every toggle disabled, in a file that is not a test file, the
\* diagnostics are exactly one per shadowing identifier, at the identifier,
\* with the fixed message, in source order.
C7_DefaultDiagnostics ==
    (pc = "done" /\ flags = Default /\ ~IsTestFile) => diags = ShadowDiags

C7_Witness ==
    /\ pc = "done" /\ flags = Default /\ ~IsTestFile
    /\ Len(diags) = 2
    /\ SyntacticParent(diags[1].Pos) = SyntacticParent(diags[2].Pos)

\* the nodes reached from n by following the parent map, n included
RECURSIVE UpChain(_)
UpChain(n) == IF n = Nil THEN {} ELSE {n} \cup UpChain(Parent(parent, n))
NoBlockOrStmt(as) ==
    \/ ~ \E b \in UpChain(as) : Kind(pass.tree, b) = "BlockStmt"
    \/ ~ \E b \in UpChain(as) : Kind(pass.tree, b) \in StmtKinds

RECURSIVE DiagNames(_)
DiagNames(seq) ==
    IF seq = <<>> THEN <<>> ELSE <<DiagName(Head(seq))>> \o DiagNames(Tail(seq))

\* C9: no diagnostic ever names _, under any configuration, and the
\* diagnostics are those of the same tree without its blank identifiers.
C9_Blank ==
    /\ \A i \in 1..Len(diags) : DiagName(diags[i]) # "_"
    /\ (pc = "done" /\ TwinUnits[unit] # Units[unit]) =>
          DiagNames(diags) = DiagNames(run(TwinUnits[unit]))

\* an identifier written after a blank one is reported
C9_Witness ==
    /\ pc = "done"
    /\ \E e \in Events :
          /\ DiagCount(e.ident) = 1
          /\ \E l \in Range1(Field(pass, e.as, "Lhs")) :
                Name(pass, l) = "_" /\ PosLess(l, e.ident)

\* the seven toggles and the seven predicates of the pipeline, in its order
Toggles ==
    <<flags.allowShortIf, flags.allowSameLine, flags.allowLoopShadow,
      flags.allowDeadOuter, flags.allowErrShadow, flags.allowGuardShadow,
      flags.allowTableTests>>
Predicates(e) ==
    LET stmt == findOwningStmt(pass, e.as, parent)
        funcBody == findFuncBody(pass, e.as, parent)
        topStmt == IF funcBody # Nil THEN findTopLevelStmt(pass, stmt, parent, funcBody)
                   ELSE stmt
    IN <<TypeOf(pass, Parent(parent, e.as)) = "IfStmt",
         pass.Line[e.ident] = pass.Line[e.outer.pos],
         TypeOf(pass, Parent(parent, stmt)) \in {"ForStmt", "RangeStmt"},
         ~outerUsedLater(pass, e.outer, topStmt, funcBody),
         Name(pass, e.ident) = "err" /\ e.outer.name = "err",
         isGuardClauseOnly(pass, e.outer, topStmt, funcBody),
         isTableTestPattern(pass, e.as, parent)>>

\* C10: a shadow with an enclosing block and statement is suppressed exactly
\* when some predicate whose toggle is enabled holds: the loop that stops at
\* the first true element answers as the disjunction does.
C10_Pipeline ==
    \A e \in Events :
        ~NoBlockOrStmt(e.as) =>
            (e.skip <=> \E k \in 1..7 : Toggles[k] /\ Predicates(e)[k])

\* suppressed with two enabled predicates true, none of them the first of
\* the list, and a disabled predicate true as well
C10_Witness ==
    \E e \in Events :
        /\ e.skip
        /\ ~Toggles[1] /\ ~Predicates(e)[1]
        /\ Cardinality({k \in 1..7 : Toggles[k] /\ Predicates(e)[k]}) >= 2
        /\ \E k \in 1..7 : ~Toggles[k] /\ Predicates(e)[k]
        /\ \E k \in 1..7 : Toggles[k] /\ ~Predicates(e)[k]

\* the := identifiers that declare a binding anew
NewLhs ==
    {d \in Range1(pass.order) :
        /\ Kind(pass.tree, d) = "Ident"
        /\ Role(pass.tree, d) = "Lhs"
        /\ At(pass.tree, Front(d)).tok = ":="
        /\ Name(pass, d) # "_"
        /\ pass.TypesInfo.Defs[d] # NilObj}
\* the declarations of plain local variables, and of variables of any sort
LocalDecls == {"AssignStmt", "RangeStmt"}
VarDecls == LocalDecls \cup {"FuncType", "GenDecl"}
\* the same-named bindings of the scopes strictly around the scope of d that
\* are declared by one of decls, before d
OuterCands(d, decls) ==
    LET S == pass.TypesInfo.Defs[d].parent
        Scopes == pass.TypesInfo.Scopes
    IN {Scopes[s].elems[Name(pass, d)] :
          s \in {q \in DOMAIN Scopes :
                   /\ q # S /\ IsPrefix(q, S)
                   /\ Name(pass, d) \in DOMAIN Scopes[q].elems
                   /\ Kind(pass.tree, Front(Scopes[q].elems[Name(pass, d)].pos)) \in decls
                   /\ PosLess(Scopes[q].elems[Name(pass, d)].pos, d)}}
\* the one of the innermost scope, if any
InnermostOuter(d, decls) ==
    LET cands == OuterCands(d, decls) IN
    IF cands = {} THEN NilObj
    ELSE CHOOSE o \in cands : \A o2 \in cands : Len(o2.parent) <= Len(o.parent)
\* findOuter answers as decls says, for the identifiers met and, at the end
\* of a pass over an analysed file, for every newly declared identifier
OuterIs(decls) ==
    /\ \A e \in Events : e.outer = InnermostOuter(e.ident, decls)
    /\ (pc = "done" /\ ~IsTestFile) =>
          \A d \in NewLhs :
             LET o == InnermostOuter(d, decls) IN
             /\ findOuter(pass, d, pass.TypesInfo.Defs[d]) = o
             /\ o # NilObj => \E e \in Events : e.ident = d

\* C11 as claimed: findOuter returns the same-named binding of the innermost
\* strictly enclosing scope that is a plain local variable declared before
\* the identifier, skipping the candidates that are not, and none otherwise.
C11_OuterLocalOnly == OuterIs(LocalDecls)

\* C11 amended: the binding returned is a variable of any sort (a local, a
\* parameter or a package-level variable) declared before the identifier;
\* functions and later declarations are passed over, and the walk goes on.
C11_OuterAnyVar == OuterIs(VarDecls)

\* a shadow whose outer is a parameter or a package-level variable, and one
\* whose nearest same-named candidate was passed over
C11_Witness ==
    /\ pc = "done"
    /\ \E e \in Events :
          \/ Kind(pass.tree, Front(e.outer.pos)) \in {"FuncType", "GenDecl"}
          \/ \E s \in DOMAIN pass.TypesInfo.Scopes :
                /\ s # pass.TypesInfo.Defs[e.ident].parent
                /\ IsPrefix(s, pass.TypesInfo.Defs[e.ident].parent)
                /\ s # e.outer.parent /\ IsPrefix(e.outer.parent, s)
                /\ Name(pass, e.ident) \in DOMAIN pass.TypesInfo.Scopes[s].elems

\* the map holds, for every node but the root, its syntactic parent, and
\* nothing for the root
ParentMapBuilt ==
    pc # "start" =>
        /\ DOMAIN parent = Range1(pass.order) \ {<<>>}
        /\ \A n \in DOMAIN parent : parent[n] = SyntacticParent(n)

\* C12: once the parent map is built every node but the root has one entry,
\* its immediate syntactic parent, the root has none, and no later step of
\* the pass writes the map.
C12_ParentMap ==
    [](ParentMapBuilt) /\ [][pc # "start" => parent' = parent]_vars

\* the pass has gone on to report a shadow, with the map holding nodes three
\* levels and more below the root
C12_Witness ==
    /\ pc = "done"
    /\ diags # <<>>
    /\ \E n \in DOMAIN parent : Len(n) >= 4 /\ parent[n] = Front(n)

\* the assignment statements of the file, in pre-order
Assigns == {n \in Range1(pass.order) : Kind(pass.tree, n) = "AssignStmt"}
\* the number of nodes from n up to the root
Depth(n) == Len(n) + 1

\* each walk from the assignment of a shadow met stops within Depth steps,
\* at a node of the kind it looks for or with none
WalksStop ==
    \A e \in Events :
        LET stmt == findOwningStmt(pass, e.as, parent)
            block == findEnclosingBlock(pass, e.as, parent)
            funcBody == findFuncBody(pass, e.as, parent)
            top == findTopLevelStmt(pass, stmt, parent, funcBody)
        IN /\ findOwningStmtSteps(pass, e.as, parent) <= Depth(e.as)
           /\ findEnclosingBlockSteps(pass, e.as, parent) <= Depth(e.as)
           /\ findFuncBodySteps(pass, e.as, parent) <= Depth(e.as)
           /\ findTopLevelStmtSteps(stmt, parent, funcBody) <= Depth(stmt)
           /\ stmt = Nil \/ (Kind(pass.tree, stmt) \in StmtKinds /\ IsPrefix(stmt, e.as))
           /\ block = Nil \/ (Kind(pass.tree, block) = "BlockStmt" /\ IsPrefix(block, e.as))
           /\ funcBody = Nil \/ (IsFuncBody(funcBody) /\ IsPrefix(funcBody, e.as))
           /\ top = stmt \/ (Front(top) = funcBody /\ IsPrefix(top, stmt))

\* the assignments still to visit are the last ones of the file, in order
TodoInOrder ==
    /\ pc = "preorder" =>
          /\ Range1(todo) \subseteq Assigns
          /\ \A i, j \in 1..Len(todo) : i < j => PosLess(todo[i], todo[j])
          /\ \A a \in Assigns \ Range1(todo) : \A i \in 1..Len(todo) : PosLess(a, todo[i])
    /\ pc = "done" => todo = <<>>
\* no shadow is met twice, and at the end of an analysed file each was met
OnceEach ==
    /\ \A i, j \in 1..Len(events) : events[i].ident = events[j].ident => i = j
    /\ (pc = "done" /\ ~IsTestFile) => {e.ident : e \in Events} = ShadowIdents

\* C13: a pass terminates, under every configuration: each upward walk stops
\* within as many steps as there are nodes from its start to the root, at a
\* matching node or with none; the assignments are visited one at a time in
\* pre-order, each once, and run returns.
C13_Terminates ==
    /\ [](WalksStop /\ TodoInOrder /\ OnceEach)
    /\ [][(pc = "preorder" /\ pc' = "preorder") =>
             (todo # <<>> /\ todo' = Tail(todo))]_vars
    /\ [][pc = "start" => (pc' = "preorder" /\ Range1(todo') = Assigns)]_vars
    /\ <>(pc = "done")

\* a finished pass over three assignments and more, with a shadow whose
\* walk to the function body took three steps
C13_Witness ==
    /\ pc = "done"
    /\ Cardinality(Assigns) >= 3
    /\ \E e \in Events :
          /\ findFuncBodySteps(pass, e.as, parent) >= 3
          /\ findFuncBody(pass, e.as, parent) # Nil
          /\ findTopLevelStmt(pass, e.as, parent, findFuncBody(pass, e.as, parent)) # e.as

====
